---- MODULE Spec2Model ----
(***************************************************************************)
(* Model of the Tango solver of TanGOAT: the board model, the constraint   *)
(* validator (isValidPlacement and its four rule checks) and the           *)
(* depth-first backtracking search (solvePuzzle / dfs), as documented in   *)
(* DIY.md, driven by the content script's solve cycle (content.js).        *)
(*                                                                         *)
(* The recursion of dfs is unfolded into an explicit machine: stack holds,  *)
(* for every suspended dfs frame, the candidate whose recursion is in      *)
(* progress, and pc is the position of the frame in control.               *)
(*                                                                         *)
(* Around the solver, the content script (content.js): the runs of the     *)
(* script in a page, the MutationObserver and its delayed detection, the   *)
(* message listener, and the asynchronous solvePuzzle of a request from    *)
(* findGameBoard to the clicks of inputSolution.                           *)
(*                                                                         *)
(* In front of it, the toolbar popup: the click handlers of its two        *)
(* buttons, from the test of the tab's URL over the ping and the injection *)
(* of the scripts to the action message and its 5000 ms timeout.           *)
(***************************************************************************)
EXTENDS Integers, Sequences, FiniteSets, TLC

(* ---------------------------- bounds ----------------------------------- *)
\* the first MaxGiven cells (row-major) of an input board may be pre-filled
MaxGiven == 3
\* the first MaxEdges edge slots (h[0][0], v[0][0], h[0][1], v[0][1], ...)
\* of an input board may carry a constraint
MaxEdges == 1
\* number of solve runs made on the same parsed board (SpecTwice)
MaxRuns == 2
\* runs of content.js in one page
MaxInjections == 2
\* nodes the page adds after its first content
MaxNodes == 3
\* messages the popup sends to one page
MaxRequests == 2
\* clicks on the buttons of the popup
MaxClicks == 2

\* board sizes fed to the solver (BOARD_SIZE = sqrt(cell count))
Sizes == {3, 4}

(* ---------------------------- data model ------------------------------- *)
CellState == {"EMPTY", "SUN", "MOON"}
EdgeState == {"EMPTY", "EQUAL", "OPPOSITE"}

EDGE_SIZE(n) == n - 1

Cells(n) == (0 .. n - 1) \X (0 .. n - 1)
HEdges(n) == (0 .. n - 1) \X (0 .. EDGE_SIZE(n) - 1)
VEdges(n) == (0 .. EDGE_SIZE(n) - 1) \X (0 .. n - 1)

VARIABLES
  BOARD_SIZE,   \* size of the grid
  baseBoard,    \* baseGameState.board: the board as parsed
  board,        \* simulatedGameState.board: the board the search works on
  horizontal,   \* edges.horizontal[row][col]: (row,col) -- (row,col+1)
  vertical,     \* edges.vertical[row][col]:   (row,col) -- (row+1,col)
  emptyCells,   \* the ordered list of unresolved cells
  solution,     \* the placement list under construction
  index,        \* argument of the dfs frame in control
  stack,        \* candidate in progress in each suspended dfs frame
  pc,           \* position of the solver
  result,       \* what solvePuzzle returned
  run,          \* number of the current solve run
  trace,        \* every placement committed in this run, in order
  firstResult,  \* result of the first run
  firstTrace,   \* trace of the first run
  readyState,   \* document.readyState
  classDefined, \* window.LinkedInTangoIntegration is defined
  tangoIntegrationInstance, \* window.tangoIntegrationInstance is set
  instances,    \* LinkedInTangoIntegration objects constructed so far
  loadListeners, \* DOMContentLoaded listeners registered by content.js
  messageListeners, \* chrome.runtime.onMessage listeners registered
  injections,   \* times content.js was run in the page
  gameSelector, \* this.gameSelector
  document,     \* the selectors that match an element of the page
  mutations,    \* added nodes not yet delivered to the MutationObserver
  timers,       \* pending setTimeout(detectGameSelectors, 500)
  added,        \* nodes the page has added
  domSize,      \* side of the grid the page shows in .lotka-grid
  dom,          \* what each .lotka-cell of the page shows
  domHorizontal, \* right-edge marks of the page's cells
  domVertical,  \* down-edge marks of the page's cells
  lockedCells,  \* cells carrying lotka-cell--locked
  requests,     \* the messages received, each with its progress
  clicks,       \* every click dispatched on a cell, in order
  tabUrl,       \* tab.url of the active tab
  popup         \* the clicks on the popup's buttons, each with its progress

\* the page and the content script around the solver
page == <<readyState, classDefined, tangoIntegrationInstance, instances,
          loadListeners, messageListeners, injections, gameSelector, document,
          mutations, timers, added, domSize, dom, domHorizontal, domVertical,
          lockedCells, requests, clicks, tabUrl, popup>>

\* the toolbar popup and the tab it looks at
toolbar == <<tabUrl, popup>>

vars == <<BOARD_SIZE, baseBoard, board, horizontal, vertical, emptyCells,
          solution, index, stack, pc, result, run, trace, firstResult, firstTrace,
          page>>

Pending == [kind |-> "pending", placements |-> <<>>]
NO_SOLUTION == [kind |-> "null", placements |-> <<>>]
Solution(s) == [kind |-> "solution", placements |-> s]

(* ---------------------------- validator -------------------------------- *)
\* checkThreeInRowHorizontal without its X_X pattern
checkThreeInRowHorizontal_NoMiddle(b, n, row, col, symbol) ==
  \/ /\ col >= 2
     /\ b[<<row, col - 1>>] = symbol
     /\ b[<<row, col - 2>>] = symbol
  \/ /\ col <= n - 3
     /\ b[<<row, col + 1>>] = symbol
     /\ b[<<row, col + 2>>] = symbol

\* checkThreeInRowHorizontal: TRUE when placing symbol makes three in a row
checkThreeInRowHorizontal(b, n, row, col, symbol) ==
  \/ /\ col >= 2
     /\ b[<<row, col - 1>>] = symbol
     /\ b[<<row, col - 2>>] = symbol
  \/ /\ col <= n - 3
     /\ b[<<row, col + 1>>] = symbol
     /\ b[<<row, col + 2>>] = symbol
  \/ /\ col > 0 /\ col < n - 1
     /\ b[<<row, col - 1>>] = symbol
     /\ b[<<row, col + 1>>] = symbol

\* checkThreeInRowVertical: the same three windows along the column
checkThreeInRowVertical(b, n, row, col, symbol) ==
  \/ /\ row >= 2
     /\ b[<<row - 1, col>>] = symbol
     /\ b[<<row - 2, col>>] = symbol
  \/ /\ row <= n - 3
     /\ b[<<row + 1, col>>] = symbol
     /\ b[<<row + 2, col>>] = symbol
  \/ /\ row > 0 /\ row < n - 1
     /\ b[<<row - 1, col>>] = symbol
     /\ b[<<row + 1, col>>] = symbol

CountRow(b, n, row, symbol) ==
  Cardinality({c \in 0 .. n - 1 : b[<<row, c>>] = symbol})

CountCol(b, n, col, symbol) ==
  Cardinality({r \in 0 .. n - 1 : b[<<r, col>>] = symbol})

\* checkRowColumnBalance that counts without the symbol being placed
checkRowColumnBalance_Uncounted(b, n, row, col, symbol) ==
  \/ 2 * CountRow(b, n, row, symbol) > n
  \/ 2 * CountCol(b, n, col, symbol) > n

\* checkRowColumnBalance: TRUE when the row or the column would hold more
\* than BOARD_SIZE / 2 of symbol once it is placed (count + 1 > n / 2)
checkRowColumnBalance(b, n, row, col, symbol) ==
  \/ 2 * (CountRow(b, n, row, symbol) + 1) > n
  \/ 2 * (CountCol(b, n, col, symbol) + 1) > n

\* the edge test shared by both directions: edge state against the other cell
EdgeViolated(state, other, symbol) ==
  \/ state = "EQUAL" /\ other # "EMPTY" /\ other # symbol
  \/ state = "OPPOSITE" /\ other # "EMPTY" /\ other = symbol

\* checkEdgeConstraints, horizontal part: the edge to the right neighbour
checkEdgeHorizontal(b, h, n, row, col, symbol) ==
  /\ col < EDGE_SIZE(n)
  /\ EdgeViolated(h[<<row, col>>], b[<<row, col + 1>>], symbol)

\* checkEdgeConstraints, vertical part: the edge to the neighbour below
checkEdgeVertical(b, v, n, row, col, symbol) ==
  /\ row < EDGE_SIZE(n)
  /\ EdgeViolated(v[<<row, col>>], b[<<row + 1, col>>], symbol)

checkEdgeConstraints(b, h, v, n, row, col, symbol) ==
  \/ checkEdgeHorizontal(b, h, n, row, col, symbol)
  \/ checkEdgeVertical(b, v, n, row, col, symbol)

isValidPlacement(b, h, v, n, row, col, symbol) ==
  /\ ~ checkThreeInRowHorizontal(b, n, row, col, symbol)
  /\ ~ checkThreeInRowVertical(b, n, row, col, symbol)
  /\ ~ checkRowColumnBalance(b, n, row, col, symbol)
  /\ ~ checkEdgeConstraints(b, h, v, n, row, col, symbol)

(* ---------------------------- cell order ------------------------------- *)
\* getAdjacentEmptyCells: the EMPTY 4-neighbours of (row, col)
getAdjacentEmptyCells(b, n, row, col) ==
  {c \in {<<row - 1, col>>, <<row + 1, col>>, <<row, col - 1>>, <<row, col + 1>>} :
     c \in Cells(n) /\ b[c] = "EMPTY"}

\* position of a cell in the row-major scan of solvePuzzle
RowMajor(n, c) == c[1] * n + c[2]

\* the cell at row-major position k
CellAt(n, k) == <<k \div n, k % n>>

RECURSIVE ScanCells_AllCells(_, _, _)
\* the scan without its test for EMPTY: every cell is pushed
ScanCells_AllCells(b, n, k) ==
  IF k >= n * n THEN <<>>
  ELSE <<CellAt(n, k)>> \o ScanCells_AllCells(b, n, k + 1)

RECURSIVE ScanCells(_, _, _)
\* the nested row/col loops of solvePuzzle: cells from position k on that
\* hold EMPTY, in scan order
ScanCells(b, n, k) ==
  IF k >= n * n THEN <<>>
  ELSE IF b[CellAt(n, k)] = "EMPTY"
       THEN <<CellAt(n, k)>> \o ScanCells(b, n, k + 1)
       ELSE ScanCells(b, n, k + 1)

collectEmptyCells(b, n) == ScanCells(b, n, 0)

\* the comparator (a, b) => aAdjacent - bAdjacent of the sort
compareAdjacent(b, n, x, y) ==
  Cardinality(getAdjacentEmptyCells(b, n, x[1], x[2]))
    - Cardinality(getAdjacentEmptyCells(b, n, y[1], y[2]))

\* a sort that puts an element before the earlier elements it compares
\* equal to
SortedPosition_Unstable(b, n, s, i) ==
  Cardinality({j \in 1 .. Len(s) :
                 \/ compareAdjacent(b, n, s[j], s[i]) < 0
                 \/ compareAdjacent(b, n, s[j], s[i]) = 0 /\ j >= i})

\* the place element i of s takes in the sorted array: after every element
\* that compares less, and after the earlier elements that compare equal
SortedPosition(b, n, s, i) ==
  Cardinality({j \in 1 .. Len(s) :
                 \/ compareAdjacent(b, n, s[j], s[i]) < 0
                 \/ compareAdjacent(b, n, s[j], s[i]) = 0 /\ j <= i})

\* the cells of s, each with the place it takes in the sorted array;
\* Array.prototype.sort is stable, elements that compare equal keep their
\* scan order
rankCells(b, n, s) ==
  {<<SortedPosition(b, n, s, i), s[i]>> : i \in 1 .. Len(s)}

\* emptyCells.sort((a, b) => aAdjacent - bAdjacent): the sorted array, read
\* off the ranked cells
sortByAdjacentEmpty(ranked) ==
  [k \in 1 .. Cardinality(ranked) |-> (CHOOSE p \in ranked : p[1] = k)[2]]

(* ---------------------------- input boards ----------------------------- *)
\* boards whose given cells lie among the first MaxGiven cells
PrefixBoards(n) ==
  {[c \in Cells(n) |-> IF RowMajor(n, c) < MaxGiven THEN g[RowMajor(n, c)] ELSE "EMPTY"] :
     g \in [0 .. MaxGiven - 1 -> CellState]}

\* a row of the puzzle as given: all EMPTY, or every cell SUN or MOON
GivenRows(n) ==
  [0 .. n - 1 -> {"EMPTY"}] \cup [0 .. n - 1 -> {"SUN", "MOON"}]

\* the rows of the upper half of the board
UpperRows(n) == {r \in 0 .. n - 1 : 2 * r < n}

\* boards whose upper rows are each EMPTY or given whole, the rest EMPTY
RowBoards(n) ==
  {[c \in Cells(n) |-> IF c[1] \in UpperRows(n) THEN g[c[1]][c[2]] ELSE "EMPTY"] :
     g \in [UpperRows(n) -> GivenRows(n)]}

InputBoards(n) == PrefixBoards(n) \cup RowBoards(n)

HSlot(n, e) == 2 * (e[1] * EDGE_SIZE(n) + e[2])
VSlot(n, e) == 2 * (e[1] * n + e[2]) + 1

InputHorizontal(n, g) ==
  [e \in HEdges(n) |-> IF HSlot(n, e) < MaxEdges THEN g[HSlot(n, e)] ELSE "EMPTY"]

InputVertical(n, g) ==
  [e \in VEdges(n) |-> IF VSlot(n, e) < MaxEdges THEN g[VSlot(n, e)] ELSE "EMPTY"]

(* ---------------------------- page data --------------------------------- *)
\* the selectors detectGameSelectors tries, in its order
possibleSelectors ==
  <<".lotka-grid", ".game-board", ".grid-board-wrapper", ".tango-game-board",
    "[data-testid=tango-board]", ".puzzle-grid", ".game-grid", ".tango-puzzle",
    ".puzzle-container .grid", ".game-container .board">>

\* the selectors the MutationObserver callback looks for in an added node
observedSelectors == {".tango-game-board", ".game-board", ".puzzle-grid"}

\* what an added node may contain: the grid with its cells, or an element
\* of class game-board
NodeKinds == {".lotka-grid", ".game-board"}

\* the URL of a LinkedIn games page, a URL without linkedin.com/games, and
\* a URL of another site that holds linkedin.com/games in its query
GamesUrl == "https://www.linkedin.com/games/tango"
OtherUrl == "https://www.linkedin.com/feed"
QueryUrl == "https://example.com/?next=linkedin.com/games"

\* tab.url.includes('linkedin.com/games')
includesGames(url) == url \in {GamesUrl, QueryUrl}

\* the URL matches one of the patterns of content_scripts in the manifest
manifestMatches(url) == url = GamesUrl

\* the actions of the messages the popup sends
Actions == {"ping", "solve", "hint"}

\* the statuses getHint() shows when a game board was found
HintStatuses ==
  {"Could not parse the game grid", "No hints available", "Hint", "Error getting hint"}

\* a message received by the listener, with the progress of its handling
Request(action, stage, response, statuses) ==
  [action |-> action, stage |-> stage, response |-> response,
   queue |-> <<>>, clicked |-> 0, statuses |-> statuses]

(* ---------------------------- operations ------------------------------- *)
\* the page of a solve request at the call of solver.solvePuzzle(): one
\* instance, the grid in the page, the board parsed from it
InitPageOfSolve ==
  /\ readyState = "complete"
  /\ classDefined = TRUE
  /\ tangoIntegrationInstance = TRUE
  /\ instances = 1
  /\ loadListeners = 0
  /\ messageListeners = 1
  /\ injections = 1
  /\ gameSelector = ".lotka-grid"
  /\ document = {".lotka-grid"}
  /\ mutations = <<>>
  /\ timers = 0
  /\ added = 0
  /\ domSize = BOARD_SIZE
  /\ dom = baseBoard
  /\ domHorizontal = horizontal
  /\ domVertical = vertical
  /\ lockedCells = {c \in Cells(BOARD_SIZE) : baseBoard[c] # "EMPTY"}
  /\ requests = <<Request("solve", "solving", "success",
                          <<"Analyzing puzzle...", "Solving puzzle...">>)>>
  /\ clicks = <<>>
  /\ tabUrl = GamesUrl
  /\ popup = <<>>

Init ==
  /\ BOARD_SIZE \in Sizes
  /\ baseBoard \in InputBoards(BOARD_SIZE)
  /\ \E g \in [0 .. MaxEdges - 1 -> EdgeState] :
       /\ horizontal = InputHorizontal(BOARD_SIZE, g)
       /\ vertical = InputVertical(BOARD_SIZE, g)
  /\ board = baseBoard
  /\ emptyCells = <<>>
  /\ solution = <<>>
  /\ index = 0
  /\ stack = <<>>
  /\ pc = "idle"
  /\ result = Pending
  /\ run = 1
  /\ trace = <<>>
  /\ firstResult = Pending
  /\ firstTrace = <<>>
  /\ InitPageOfSolve

frame == <<BOARD_SIZE, baseBoard, horizontal, vertical>>
history == <<run, firstResult, firstTrace>>

Reverse(s) == [k \in 1 .. Len(s) |-> s[Len(s) + 1 - k]]

\* solvePuzzle with a sort that is not stable: cells with equal counts come
\* out in scan order or in reverse scan order
solvePuzzle_UnstableSort ==
  /\ pc = "idle"
  /\ \E cells \in {collectEmptyCells(board, BOARD_SIZE)} :
       emptyCells' \in {sortByAdjacentEmpty(rankCells(board, BOARD_SIZE, cells)),
                        sortByAdjacentEmpty(rankCells(board, BOARD_SIZE, Reverse(cells)))}
  /\ solution' = <<>>
  /\ index' = 0
  /\ stack' = <<>>
  /\ pc' = "enter"
  /\ UNCHANGED <<page, frame, board, result, trace, history>>

\* solvePuzzle up to the first dfs call: collect the EMPTY cells, sort them
solvePuzzle ==
  /\ pc = "idle"
  /\ \E cells \in {collectEmptyCells(board, BOARD_SIZE)} :
       \E ranked \in {rankCells(board, BOARD_SIZE, cells)} :
         emptyCells' = sortByAdjacentEmpty(ranked)
  /\ solution' = <<>>
  /\ index' = 0
  /\ stack' = <<>>
  /\ pc' = "enter"
  /\ UNCHANGED <<page, frame, board, result, trace, history>>

\* dfs(index) with index = emptyCells.length: every frame returns true and
\* solvePuzzle returns the solution list
dfsSuccess ==
  /\ pc = "enter"
  /\ index = Len(emptyCells)
  /\ result' = Solution(solution)
  /\ pc' = "done"
  /\ UNCHANGED <<page, frame, board, emptyCells, solution, index, stack, trace, history>>

\* board[row][col].contains = symbol; solution.push([row, col, symbol]);
\* dfs(index + 1)
place(symbol) ==
  LET cell == emptyCells[index + 1] IN
  /\ board' = [board EXCEPT ![cell] = symbol]
  /\ solution' = Append(solution, <<cell[1], cell[2], symbol>>)
  /\ trace' = Append(trace, <<cell[1], cell[2], symbol>>)
  /\ index' = index + 1
  /\ stack' = Append(stack, symbol)
  /\ pc' = "enter"

\* the backtrack step without board[row][col].contains = EMPTY
backtrack_NoClear ==
  /\ solution' = SubSeq(solution, 1, Len(solution) - 1)
  /\ board' = board
  /\ index' = index - 1
  /\ stack' = SubSeq(stack, 1, Len(stack) - 1)

\* the backtrack step without solution.pop()
backtrack_NoPop ==
  LET cell == emptyCells[index] IN
  /\ solution' = solution
  /\ board' = [board EXCEPT ![cell] = "EMPTY"]
  /\ index' = index - 1
  /\ stack' = SubSeq(stack, 1, Len(stack) - 1)

\* solution.pop(); board[row][col].contains = EMPTY, in the frame index - 1
\* whose dfs(index) call returned false
backtrack ==
  LET cell == emptyCells[index] IN
  /\ solution' = SubSeq(solution, 1, Len(solution) - 1)
  /\ board' = [board EXCEPT ![cell] = "EMPTY"]
  /\ index' = index - 1
  /\ stack' = SubSeq(stack, 1, Len(stack) - 1)

valid(symbol) ==
  LET cell == emptyCells[index + 1] IN
  isValidPlacement(board, horizontal, vertical, BOARD_SIZE, cell[1], cell[2], symbol)

\* dfs: "Try Moon first", MOON is valid: place it and recurse
dfsTryMoon ==
  /\ pc = "enter"
  /\ index < Len(emptyCells)
  /\ valid("MOON")
  /\ place("MOON")
  /\ UNCHANGED <<page, frame, emptyCells, result, history>>

\* dfs that, MOON being not valid, asks about MOON again
dfsMoonRejected_Retry ==
  /\ pc = "enter"
  /\ index < Len(emptyCells)
  /\ ~ valid("MOON")
  /\ pc' = "enter"
  /\ UNCHANGED <<page, frame, board, emptyCells, solution, index, stack, result, trace, history>>

\* dfs that goes on to "Try Sun" without having asked about MOON
dfsMoonRejected_Unasked ==
  /\ pc = "enter"
  /\ index < Len(emptyCells)
  /\ pc' = "sun"
  /\ UNCHANGED <<page, frame, board, emptyCells, solution, index, stack, result, trace, history>>

\* dfs with a validator that leaves the symbol it was asked about on the
\* board when it rejects it
dfsMoonRejected_Marking ==
  /\ pc = "enter"
  /\ index < Len(emptyCells)
  /\ ~ valid("MOON")
  /\ board' = [board EXCEPT ![emptyCells[index + 1]] = "MOON"]
  /\ pc' = "sun"
  /\ UNCHANGED <<page, frame, emptyCells, solution, index, stack, result, trace, history>>

\* dfs: MOON is not valid, control goes on to "Try Sun"
dfsMoonRejected ==
  /\ pc = "enter"
  /\ index < Len(emptyCells)
  /\ ~ valid("MOON")
  /\ pc' = "sun"
  /\ UNCHANGED <<page, frame, board, emptyCells, solution, index, stack, result, trace, history>>

\* dfs that gives up after the MOON subtree failed, without trying SUN
dfsBacktrackMoon_NoSun ==
  /\ pc = "failed"
  /\ stack # <<>>
  /\ stack[Len(stack)] = "MOON"
  /\ backtrack
  /\ pc' = "failed"
  /\ UNCHANGED <<page, frame, emptyCells, result, trace, history>>

\* dfs: the recursion under MOON returned false: backtrack, go on to SUN
dfsBacktrackMoon ==
  /\ pc = "failed"
  /\ stack # <<>>
  /\ stack[Len(stack)] = "MOON"
  /\ backtrack
  /\ pc' = "sun"
  /\ UNCHANGED <<page, frame, emptyCells, result, trace, history>>

\* dfs: "Try Sun", SUN is valid: place it and recurse
dfsTrySun ==
  /\ pc = "sun"
  /\ valid("SUN")
  /\ place("SUN")
  /\ UNCHANGED <<page, frame, emptyCells, result, history>>

\* dfs: SUN is not valid: "return false; // No valid placement found"
dfsSunRejected ==
  /\ pc = "sun"
  /\ ~ valid("SUN")
  /\ pc' = "failed"
  /\ UNCHANGED <<page, frame, board, emptyCells, solution, index, stack, result, trace, history>>

\* dfs that returns false after the SUN subtree failed with the entry
\* popped but SUN left on the board
dfsBacktrackSun_NoClear ==
  /\ pc = "failed"
  /\ stack # <<>>
  /\ stack[Len(stack)] = "SUN"
  /\ solution' = SubSeq(solution, 1, Len(solution) - 1)
  /\ index' = index - 1
  /\ stack' = SubSeq(stack, 1, Len(stack) - 1)
  /\ pc' = "failed"
  /\ UNCHANGED <<page, frame, board, emptyCells, result, trace, history>>

\* dfs: the recursion under SUN returned false: backtrack, return false
dfsBacktrackSun ==
  /\ pc = "failed"
  /\ stack # <<>>
  /\ stack[Len(stack)] = "SUN"
  /\ backtrack
  /\ pc' = "failed"
  /\ UNCHANGED <<page, frame, emptyCells, result, trace, history>>

\* dfs(0) returned false: solvePuzzle returns null
dfsExhausted ==
  /\ pc = "failed"
  /\ stack = <<>>
  /\ result' = NO_SOLUTION
  /\ pc' = "done"
  /\ UNCHANGED <<page, frame, board, emptyCells, solution, index, stack, trace, history>>

\* a further solve cycle on the same parsed board: simulatedGameState.board
\* is a fresh copy of baseGameState.board
solveAgain ==
  /\ pc = "done"
  /\ run < MaxRuns
  /\ run' = run + 1
  /\ firstResult' = IF run = 1 THEN result ELSE firstResult
  /\ firstTrace' = IF run = 1 THEN trace ELSE firstTrace
  /\ board' = baseBoard
  /\ emptyCells' = <<>>
  /\ solution' = <<>>
  /\ index' = 0
  /\ stack' = <<>>
  /\ result' = Pending
  /\ trace' = <<>>
  /\ pc' = "idle"
  /\ UNCHANGED <<page, frame>>

Next ==
  \/ solvePuzzle
  \/ dfsSuccess
  \/ dfsTryMoon
  \/ dfsMoonRejected
  \/ dfsBacktrackMoon
  \/ dfsTrySun
  \/ dfsSunRejected
  \/ dfsBacktrackSun
  \/ dfsExhausted

\* one solve run on each input board
Spec == Init /\ [][Next]_vars

\* one solve run; the search is synchronous code that runs on while it has a
\* step to take
SpecLive == Init /\ [][Next]_vars /\ WF_vars(Next)

NextTwice ==
  \/ Next
  \/ solveAgain

\* MaxRuns solve runs, one after the other, on each input board
SpecTwice == Init /\ [][NextTwice]_vars

(* ---------------------------- cell interaction -------------------------- *)
\* the game's answer to one click on a cell: EMPTY -> SUN -> MOON -> EMPTY
clickCell(symbol) ==
  CASE symbol = "EMPTY" -> "SUN"
    [] symbol = "SUN" -> "MOON"
    [] OTHER -> "EMPTY"

\* the comparator of newPlacements.sort: row, then column
comparePosition(x, y) ==
  IF x[1] # y[1] THEN x[1] - y[1] ELSE x[2] - y[2]

\* the place Array.prototype.sort gives entry i of s under comparePosition
PositionRank(s, i) ==
  Cardinality({j \in 1 .. Len(s) :
                 \/ comparePosition(s[j], s[i]) < 0
                 \/ comparePosition(s[j], s[i]) = 0 /\ j <= i})

sortByPosition(s) ==
  IF s = <<>> THEN <<>>
  ELSE [k \in 1 .. Len(s) |-> s[CHOOSE i \in 1 .. Len(s) : PositionRank(s, i) = k]]

\* the filter of inputSolution: the placements on cells EMPTY in baseGameState
filterEmpty(sol, base) ==
  LET keep(p) == base[<<p[1], p[2]>>] = "EMPTY" IN SelectSeq(sol, keep)

\* inputSolution without its sort
newPlacements_Unsorted(sol, base) == filterEmpty(sol, base)

\* newPlacements of inputSolution: filtered, then sorted by position
newPlacements(sol, base) == sortByPosition(filterEmpty(sol, base))

\* no JavaScript of the content script is on the stack and none is due as
\* a microtask: the search is not running and no request is between the
\* return of initialize() and the first await of inputSolution
Quiescent ==
  /\ pc \in {"none", "done"}
  /\ \A r \in DOMAIN requests : requests[r].stage \notin {"parse", "solving"}

\* the same statements with simulatedGameState.board being the board of
\* baseGameState itself, not a copy: the filter of inputSolution reads the
\* board the search has filled
afterSolve_Aliased(r) ==
  /\ requests[r].stage = "solving"
  /\ pc = "done"
  /\ IF result.kind = "null"
       THEN requests' = [requests EXCEPT
              ![r].stage = "finished",
              ![r].statuses = Append(@, "No solution found or stopped by user")]
       ELSE \E todo \in {newPlacements(result.placements, board)} :
              requests' = [requests EXCEPT
                ![r].stage = "input",
                ![r].queue = todo,
                ![r].statuses = Append(@, "Applying solution...")]
  /\ UNCHANGED <<readyState, classDefined, tangoIntegrationInstance, instances,
                 loadListeners, messageListeners, injections, gameSelector,
                 document, mutations, timers, added, domSize, dom, domHorizontal,
                 domVertical, lockedCells, clicks, toolbar>>
  /\ UNCHANGED <<frame, board, emptyCells, solution, index, stack, pc, result,
                 trace, history>>

\* the statements of content.js solvePuzzle after solver.solvePuzzle()
\* returned, up to the first await of inputSolution
afterSolve(r) ==
  /\ requests[r].stage = "solving"
  /\ pc = "done"
  /\ IF result.kind = "null"
       THEN requests' = [requests EXCEPT
              ![r].stage = "finished",
              ![r].statuses = Append(@, "No solution found or stopped by user")]
       ELSE \E todo \in {newPlacements(result.placements, baseBoard)} :
              requests' = [requests EXCEPT
                ![r].stage = "input",
                ![r].queue = todo,
                ![r].statuses = Append(@, "Applying solution...")]
  /\ UNCHANGED <<readyState, classDefined, tangoIntegrationInstance, instances,
                 loadListeners, messageListeners, injections, gameSelector,
                 document, mutations, timers, added, domSize, dom, domHorizontal,
                 domVertical, lockedCells, clicks, toolbar>>
  /\ UNCHANGED <<frame, board, emptyCells, solution, index, stack, pc, result,
                 trace, history>>

\* one click of the loop of inputSolution on the head of newPlacements
\* (singleClick; doubleClick is two of them with an await in between), or
\* the skip of a placement whose cell is missing or locked
inputStep(r) ==
  /\ requests[r].stage = "input"
  /\ requests[r].queue # <<>>
  /\ Quiescent
  /\ LET p == Head(requests[r].queue)
         cellIndex == p[1] * BOARD_SIZE + p[2]
         cell == CellAt(domSize, cellIndex)
         present == ".lotka-grid" \in document /\ cellIndex < domSize * domSize
     IN IF present /\ cell \notin lockedCells
          THEN /\ dom' = [dom EXCEPT ![cell] = clickCell(@)]
               /\ clicks' = Append(clicks, <<r, cell>>)
               /\ IF p[3] = "SUN" \/ requests[r].clicked = 1
                    THEN requests' = [requests EXCEPT
                           ![r].queue = Tail(@), ![r].clicked = 0]
                    ELSE requests' = [requests EXCEPT ![r].clicked = 1]
          ELSE /\ requests' = [requests EXCEPT ![r].queue = Tail(@)]
               /\ UNCHANGED <<dom, clicks>>
  /\ UNCHANGED <<readyState, classDefined, tangoIntegrationInstance, instances,
                 loadListeners, messageListeners, injections, gameSelector,
                 document, mutations, timers, added, domSize, domHorizontal,
                 domVertical, lockedCells, toolbar>>
  /\ UNCHANGED <<frame, board, emptyCells, solution, index, stack, pc, result,
                 trace, history>>

\* a final status shown while inputSolution still has placements to click
inputDone_Early(r) ==
  /\ requests[r].stage = "input"
  /\ Quiescent
  /\ requests' = [requests EXCEPT
       ![r].stage = "finished",
       ![r].statuses = Append(@, "Puzzle solved!")]
  /\ UNCHANGED <<readyState, classDefined, tangoIntegrationInstance, instances,
                 loadListeners, messageListeners, injections, gameSelector,
                 document, mutations, timers, added, domSize, dom, domHorizontal,
                 domVertical, lockedCells, clicks, toolbar>>
  /\ UNCHANGED <<frame, board, emptyCells, solution, index, stack, pc, result,
                 trace, history>>

\* inputSolution returned true: the final status of a solved request
inputDone(r) ==
  /\ requests[r].stage = "input"
  /\ requests[r].queue = <<>>
  /\ Quiescent
  /\ requests' = [requests EXCEPT
       ![r].stage = "finished",
       ![r].statuses = Append(@, "Puzzle solved!")]
  /\ UNCHANGED <<readyState, classDefined, tangoIntegrationInstance, instances,
                 loadListeners, messageListeners, injections, gameSelector,
                 document, mutations, timers, added, domSize, dom, domHorizontal,
                 domVertical, lockedCells, clicks, toolbar>>
  /\ UNCHANGED <<frame, board, emptyCells, solution, index, stack, pc, result,
                 trace, history>>

NextInput ==
  \/ Next
  \/ \E r \in DOMAIN requests : afterSolve(r)
  \/ \E r \in DOMAIN requests : inputStep(r)
  \/ \E r \in DOMAIN requests : inputDone(r)

\* one solve request from the call of solver.solvePuzzle() to its final status
SpecInput == Init /\ [][NextInput]_vars

(* ---------------------------- content script --------------------------- *)
solver == <<BOARD_SIZE, baseBoard, board, horizontal, vertical, emptyCells,
            solution, index, stack, pc, result, run, trace, firstResult,
            firstTrace>>
puzzle == <<domSize, dom, domHorizontal, domVertical, lockedCells>>
loader == <<readyState, classDefined, tangoIntegrationInstance, instances,
            loadListeners, messageListeners, injections>>

\* the cells below the first row that show SUN in the page's 4x4 puzzle;
\* the others show MOON
PageSuns == {<<1, 1>>, <<1, 3>>, <<2, 1>>, <<2, 2>>, <<3, 0>>, <<3, 3>>}

\* the puzzle the page shows: a 3x3 grid with nothing given, or a 4x4 grid
\* with the first row left to fill
PageBoard(n) ==
  [c \in Cells(n) |->
     IF n = 3 \/ c[1] = 0 THEN "EMPTY"
     ELSE IF c \in PageSuns THEN "SUN" ELSE "MOON"]

\* the page before content.js has run in it
InitPage ==
  /\ BOARD_SIZE = 0
  /\ baseBoard = <<>>
  /\ board = <<>>
  /\ horizontal = <<>>
  /\ vertical = <<>>
  /\ emptyCells = <<>>
  /\ solution = <<>>
  /\ index = 0
  /\ stack = <<>>
  /\ pc = "none"
  /\ result = Pending
  /\ run = 1
  /\ trace = <<>>
  /\ firstResult = Pending
  /\ firstTrace = <<>>
  /\ readyState = "loading"
  /\ classDefined = FALSE
  /\ tangoIntegrationInstance = FALSE
  /\ instances = 0
  /\ loadListeners = 0
  /\ messageListeners = 0
  /\ injections = 0
  /\ gameSelector = "null"
  /\ document \in {{}, {".lotka-grid"}}
  /\ mutations = <<>>
  /\ timers = 0
  /\ added = 0
  /\ domSize \in Sizes
  /\ dom = PageBoard(domSize)
  /\ domHorizontal = [e \in HEdges(domSize) |-> "EMPTY"]
  /\ domVertical = [e \in VEdges(domSize) |-> "EMPTY"]
  /\ lockedCells = {c \in Cells(domSize) : dom[c] # "EMPTY"}
  /\ requests = <<>>
  /\ clicks = <<>>
  /\ tabUrl = GamesUrl
  /\ popup = <<>>

\* the first selector of possibleSelectors that matches an element
FirstMatch(doc) ==
  LET hits == {k \in 1 .. Len(possibleSelectors) : possibleSelectors[k] \in doc} IN
  IF hits = {} THEN "null"
  ELSE possibleSelectors[CHOOSE k \in hits : \A j \in hits : k <= j]

\* this.gameSelector after detectGameSelectors() ran with it equal to sel
detectGameSelectors(doc, sel) ==
  IF FirstMatch(doc) # "null" THEN FirstMatch(doc) ELSE sel

\* findGameBoard() returns an element: the one gameSelector matches, or a
\* fallback container with more than 9 cells
findGameBoard(doc, sel) ==
  \/ sel # "null" /\ sel \in doc
  \/ ".lotka-grid" \in doc /\ domSize * domSize > 9

\* Math.sqrt of the number of .lotka-cell elements in the page
cellCountRoot(doc) == IF ".lotka-grid" \in doc THEN domSize ELSE 0

\* k constructions of LinkedInTangoIntegration: init() detects the selector,
\* registers the message listener and starts the observer
construct(k) ==
  /\ instances' = instances + k
  /\ messageListeners' = messageListeners + k
  /\ tangoIntegrationInstance' = (tangoIntegrationInstance \/ k > 0)
  /\ gameSelector' = IF k > 0 THEN detectGameSelectors(document, "null")
                     ELSE gameSelector

\* a run of content.js without the test of window.LinkedInTangoIntegration
inject_NoClassGuard ==
  /\ Quiescent
  /\ injections < MaxInjections
  /\ injections' = injections + 1
  /\ classDefined' = TRUE
  /\ IF tangoIntegrationInstance
       THEN UNCHANGED <<tangoIntegrationInstance, instances, loadListeners,
                        messageListeners, gameSelector>>
       ELSE IF readyState = "loading"
              THEN /\ loadListeners' = loadListeners + 1
                   /\ UNCHANGED <<tangoIntegrationInstance, instances,
                                  messageListeners, gameSelector>>
              ELSE /\ construct(1)
                   /\ UNCHANGED loadListeners
  /\ UNCHANGED <<readyState, document, mutations, timers, added, puzzle,
                 requests, clicks, solver, toolbar>>

\* one run of content.js in the page
contentScript ==
  /\ Quiescent
  /\ injections < MaxInjections
  /\ injections' = injections + 1
  /\ IF classDefined
       THEN UNCHANGED <<classDefined, tangoIntegrationInstance, instances,
                        loadListeners, messageListeners, gameSelector>>
       ELSE /\ classDefined' = TRUE
            /\ IF tangoIntegrationInstance
                 THEN UNCHANGED <<tangoIntegrationInstance, instances,
                                  loadListeners, messageListeners, gameSelector>>
                 ELSE IF readyState = "loading"
                        THEN /\ loadListeners' = loadListeners + 1
                             /\ UNCHANGED <<tangoIntegrationInstance, instances,
                                            messageListeners, gameSelector>>
                        ELSE /\ construct(1)
                             /\ UNCHANGED loadListeners
  /\ UNCHANGED <<readyState, document, mutations, timers, added, puzzle,
                 requests, clicks, solver>>

\* the browser runs content.js in the page for the manifest's content_scripts
inject ==
  /\ contentScript
  /\ UNCHANGED toolbar

\* the document finished loading: every DOMContentLoaded listener runs
DOMContentLoaded ==
  /\ Quiescent
  /\ readyState = "loading"
  /\ readyState' = "complete"
  /\ construct(loadListeners)
  /\ loadListeners' = 0
  /\ UNCHANGED <<classDefined, injections, document, mutations, timers, added,
                 puzzle, requests, clicks, solver, toolbar>>

\* the page adds a node; an observer, if one is attached, gets a record
addNode(kind) ==
  /\ Quiescent
  /\ added < MaxNodes
  /\ added' = added + 1
  /\ document' = document \cup {kind}
  /\ mutations' = IF instances > 0 THEN Append(mutations, kind) ELSE mutations
  /\ UNCHANGED <<loader, gameSelector, timers, puzzle, requests, clicks, solver,
                 toolbar>>

\* the MutationObserver callback on the records delivered together
observerCallback ==
  /\ Quiescent
  /\ mutations # <<>>
  /\ LET shouldRedetect ==
           \E k \in 1 .. Len(mutations) : mutations[k] \in observedSelectors
     IN timers' = IF shouldRedetect /\ gameSelector = "null"
                    THEN timers + 1 ELSE timers
  /\ mutations' = <<>>
  /\ UNCHANGED <<loader, gameSelector, document, added, puzzle, requests,
                 clicks, solver, toolbar>>

\* a setTimeout(() => this.detectGameSelectors(), 500) fires
detectTimer ==
  /\ Quiescent
  /\ timers > 0
  /\ timers' = timers - 1
  /\ gameSelector' = detectGameSelectors(document, gameSelector)
  /\ UNCHANGED <<loader, document, mutations, added, puzzle, requests, clicks,
                 solver, toolbar>>

\* the onMessage listener on a message of the popup: the handler runs
\* solvePuzzle() to its first await, or getHint() to its end, and then
\* calls sendResponse
onMessage(action) ==
  /\ Quiescent
  /\ messageListeners > 0
  /\ Len(requests) < MaxRequests
  /\ IF action = "ping"
       THEN /\ requests' = Append(requests, Request("ping", "finished", "loaded", <<>>))
            /\ UNCHANGED BOARD_SIZE
       ELSE IF action = "hint"
         THEN /\ \E status \in IF findGameBoard(document, gameSelector)
                                  THEN HintStatuses ELSE {"Game board not found"} :
                   requests' = Append(requests,
                     Request("hint", "finished", "success", <<status>>))
              /\ UNCHANGED BOARD_SIZE
       ELSE IF ~ findGameBoard(document, gameSelector)
         THEN /\ requests' = Append(requests,
                   Request("solve", "finished", "success", <<"Game board not found">>))
              /\ UNCHANGED BOARD_SIZE
         ELSE IF ".lotka-grid" \in document
           THEN /\ requests' = Append(requests,
                     Request("solve", "parse", "success", <<"Analyzing puzzle...">>))
                /\ BOARD_SIZE' = cellCountRoot(document)
           ELSE /\ requests' = Append(requests,
                     Request("solve", "initialize", "success", <<"Analyzing puzzle...">>))
                /\ UNCHANGED BOARD_SIZE
  /\ UNCHANGED <<loader, gameSelector, document, mutations, timers, added,
                 puzzle, clicks>>
  /\ UNCHANGED <<baseBoard, board, horizontal, vertical, emptyCells, solution,
                 index, stack, pc, result, trace, history>>

\* a message of the popup reaches the listener
receive(action) ==
  /\ onMessage(action)
  /\ UNCHANGED toolbar

\* initialize() leaves its wait loop, on .lotka-grid or after 5 seconds, and
\* sets BOARD_SIZE from the cells of the page
initializeDone(r) ==
  /\ Quiescent
  /\ requests[r].stage = "initialize"
  /\ BOARD_SIZE' = cellCountRoot(document)
  /\ requests' = [requests EXCEPT ![r].stage = "parse"]
  /\ UNCHANGED <<loader, gameSelector, document, mutations, timers, added,
                 puzzle, clicks, toolbar>>
  /\ UNCHANGED <<baseBoard, board, horizontal, vertical, emptyCells, solution,
                 index, stack, pc, result, trace, history>>

\* parseBoardState() and the statements up to the call of
\* solver.solvePuzzle(), run as the continuation of the await of
\* initialize(); with cells in the page and BOARD_SIZE 0 the parse throws
\* and solvePuzzle shows the error status
parseBoardState(r) ==
  /\ pc \in {"none", "done"}
  /\ requests[r].stage = "parse"
  /\ IF BOARD_SIZE # cellCountRoot(document)
       THEN /\ requests' = [requests EXCEPT
                 ![r].stage = "finished",
                 ![r].statuses = Append(@, "Error solving puzzle")]
            /\ UNCHANGED <<baseBoard, board, horizontal, vertical, emptyCells,
                           solution, index, stack, pc, result, trace>>
       ELSE /\ requests' = [requests EXCEPT
                 ![r].stage = "solving",
                 ![r].statuses = Append(@, "Solving puzzle...")]
            /\ baseBoard' = [c \in Cells(BOARD_SIZE) |-> dom[c]]
            /\ board' = [c \in Cells(BOARD_SIZE) |-> dom[c]]
            /\ horizontal' = [e \in HEdges(BOARD_SIZE) |-> domHorizontal[e]]
            /\ vertical' = [e \in VEdges(BOARD_SIZE) |-> domVertical[e]]
            /\ emptyCells' = <<>>
            /\ solution' = <<>>
            /\ index' = 0
            /\ stack' = <<>>
            /\ pc' = "idle"
            /\ result' = Pending
            /\ trace' = <<>>
  /\ UNCHANGED <<BOARD_SIZE, history>>
  /\ UNCHANGED <<loader, gameSelector, document, mutations, timers, added,
                 puzzle, clicks, toolbar>>

NextLoad ==
  \/ inject
  \/ DOMContentLoaded
  \/ \E kind \in NodeKinds : addNode(kind)
  \/ observerCallback
  \/ detectTimer

\* the page and the runs of content.js in it, before any message
SpecLoad == InitPage /\ [][NextLoad]_vars

NextPage ==
  \/ inject
  \/ DOMContentLoaded
  \/ \E kind \in NodeKinds : addNode(kind)
  \/ observerCallback
  \/ detectTimer
  \/ \E action \in Actions : requests = <<>> /\ receive(action)
  \/ \E r \in DOMAIN requests : initializeDone(r)
  \/ \E r \in DOMAIN requests : parseBoardState(r)
  \/ Next
  \/ \E r \in DOMAIN requests : afterSolve(r)
  \/ \E r \in DOMAIN requests : inputStep(r)
  \/ \E r \in DOMAIN requests : inputDone(r)

\* the puzzle of a page the player has begun: the page's 3x3 grid, or its
\* 4x4 grid with the last two cells of the first row filled in by the game
LoadedBoard(n) ==
  IF n = 4
    THEN [PageBoard(4) EXCEPT ![<<0, 2>>] = "SUN", ![<<0, 3>>] = "MOON"]
    ELSE PageBoard(n)

\* the page once content.js has run in it and the document has loaded
InitLoaded ==
  /\ BOARD_SIZE = 0
  /\ baseBoard = <<>>
  /\ board = <<>>
  /\ horizontal = <<>>
  /\ vertical = <<>>
  /\ emptyCells = <<>>
  /\ solution = <<>>
  /\ index = 0
  /\ stack = <<>>
  /\ pc = "none"
  /\ result = Pending
  /\ run = 1
  /\ trace = <<>>
  /\ firstResult = Pending
  /\ firstTrace = <<>>
  /\ readyState = "complete"
  /\ classDefined = TRUE
  /\ tangoIntegrationInstance = TRUE
  /\ instances = 1
  /\ loadListeners = 0
  /\ messageListeners = 1
  /\ injections = 1
  /\ document \in {{}, {".lotka-grid"}, {".game-board"}}
  /\ gameSelector = detectGameSelectors(document, "null")
  /\ mutations = <<>>
  /\ timers = 0
  /\ added = 0
  /\ domSize \in Sizes
  /\ dom = LoadedBoard(domSize)
  /\ domHorizontal = [e \in HEdges(domSize) |-> "EMPTY"]
  /\ domVertical = [e \in VEdges(domSize) |-> "EMPTY"]
  /\ lockedCells = {c \in Cells(domSize) : dom[c] # "EMPTY"}
  /\ requests = <<>>
  /\ clicks = <<>>
  /\ tabUrl = GamesUrl
  /\ popup = <<>>

NextRequests ==
  \/ \E action \in Actions : receive(action)
  \/ \E r \in DOMAIN requests : initializeDone(r)
  \/ \E r \in DOMAIN requests : parseBoardState(r)
  \/ Next
  \/ \E r \in DOMAIN requests : afterSolve(r)
  \/ \E r \in DOMAIN requests : inputStep(r)
  \/ \E r \in DOMAIN requests : inputDone(r)

\* the messages of the popup to a page in which content.js is loaded
SpecRequests == InitLoaded /\ [][NextRequests]_vars

\* one page from before the first run of content.js to the end of the
\* handling of the first message sent to it
SpecPage == InitPage /\ [][NextPage]_vars

\* the browser delivers pending mutation records and fires due timers
SpecPageLive ==
  InitPage /\ [][NextPage]_vars /\ WF_vars(observerCallback) /\ WF_vars(detectTimer)

(* ---------------------------- popup ------------------------------------- *)
\* everything of the tab's page and its content script
tab == <<loader, gameSelector, document, mutations, timers, added, puzzle,
         requests, clicks, solver>>

\* the status the popup shows when the action message was answered
DoneStatus(button) ==
  IF button = "solve" THEN "Solving puzzle..." ELSE "Getting hint..."

\* a click on solveBtn or hintBtn, with the progress of its handler
Click(button) ==
  [button |-> button, pc |-> "query", ping |-> "none", injection |-> "none",
   message |-> "none", timeout |-> FALSE, sent |-> <<>>, statuses |-> <<>>]

\* the page of a tab on LinkedIn games or elsewhere, loaded and without a
\* game board, and the popup open
InitToolbar ==
  /\ BOARD_SIZE = 0
  /\ baseBoard = <<>>
  /\ board = <<>>
  /\ horizontal = <<>>
  /\ vertical = <<>>
  /\ emptyCells = <<>>
  /\ solution = <<>>
  /\ index = 0
  /\ stack = <<>>
  /\ pc = "none"
  /\ result = Pending
  /\ run = 1
  /\ trace = <<>>
  /\ firstResult = Pending
  /\ firstTrace = <<>>
  /\ readyState = "complete"
  /\ classDefined = FALSE
  /\ tangoIntegrationInstance = FALSE
  /\ instances = 0
  /\ loadListeners = 0
  /\ messageListeners = 0
  /\ injections = 0
  /\ gameSelector = "null"
  /\ tabUrl \in {GamesUrl, OtherUrl, QueryUrl}
  /\ document = {}
  /\ mutations = <<>>
  /\ timers = 0
  /\ added = 0
  /\ domSize = 4
  /\ dom = PageBoard(domSize)
  /\ domHorizontal = [e \in HEdges(domSize) |-> "EMPTY"]
  /\ domVertical = [e \in VEdges(domSize) |-> "EMPTY"]
  /\ lockedCells = {c \in Cells(domSize) : dom[c] # "EMPTY"}
  /\ requests = <<>>
  /\ clicks = <<>>
  /\ popup = <<>>

\* the user clicks a button: the handler runs to await chrome.tabs.query
click(button) ==
  /\ Len(popup) < MaxClicks
  /\ popup' = Append(popup, Click(button))
  /\ UNCHANGED <<tab, tabUrl>>

\* the handler without its test of tab.url
tabsQuery_NoGuard(k) ==
  /\ popup[k].pc = "query"
  /\ popup' = [popup EXCEPT ![k].pc = "ping", ![k].sent = Append(@, "ping")]
  /\ UNCHANGED <<tab, tabUrl>>

\* chrome.tabs.query answered: the test of tab.url, then the ping is sent
tabsQuery(k) ==
  /\ popup[k].pc = "query"
  /\ IF includesGames(tabUrl)
       THEN popup' = [popup EXCEPT ![k].pc = "ping", ![k].sent = Append(@, "ping")]
       ELSE popup' = [popup EXCEPT
              ![k].pc = "done",
              ![k].statuses = Append(@, "Please navigate to LinkedIn Games first")]
  /\ UNCHANGED <<tab, tabUrl>>

\* the handler that injects the scripts whatever the ping's answer was
pingAnswer_AlwaysInject(k) ==
  /\ popup[k].pc = "ping"
  /\ Quiescent
  /\ popup' = [popup EXCEPT
       ![k].ping = IF messageListeners > 0 THEN "ok" ELSE "failed",
       ![k].pc = "inject",
       ![k].sent = Append(@, "inject")]
  /\ UNCHANGED <<tab, tabUrl>>

\* the ping is answered by the listener ({success: true, status: 'loaded'})
\* and the action message is sent, or it is rejected for want of a
\* receiving end and chrome.scripting.executeScript is called
pingAnswer(k) ==
  /\ popup[k].pc = "ping"
  /\ Quiescent
  /\ IF messageListeners > 0
       THEN popup' = [popup EXCEPT
              ![k].ping = "ok",
              ![k].pc = "race",
              ![k].message = "sent",
              ![k].sent = Append(@, popup[k].button)]
       ELSE popup' = [popup EXCEPT
              ![k].ping = "failed",
              ![k].pc = "inject",
              ![k].sent = Append(@, "inject")]
  /\ UNCHANGED <<tab, tabUrl>>

\* executeScript resolves: solver.js and content.js have run in the page and
\* the handler waits 500 ms
executeScript(k) ==
  /\ popup[k].pc = "inject"
  /\ contentScript
  /\ popup' = [popup EXCEPT ![k].injection = "ok", ![k].pc = "wait"]
  /\ UNCHANGED tabUrl

\* executeScript rejects: the handler logs the error and sends the action
\* message
executeScriptFailed(k) ==
  /\ popup[k].pc = "inject"
  /\ popup' = [popup EXCEPT
       ![k].injection = "failed",
       ![k].pc = "race",
       ![k].message = "sent",
       ![k].sent = Append(@, popup[k].button)]
  /\ UNCHANGED <<tab, tabUrl>>

\* the 500 ms after the injection are over: the action message is sent
waitDone(k) ==
  /\ popup[k].pc = "wait"
  /\ popup' = [popup EXCEPT
       ![k].pc = "race",
       ![k].message = "sent",
       ![k].sent = Append(@, popup[k].button)]
  /\ UNCHANGED <<tab, tabUrl>>

\* the action message reaches the tab: the listener of content.js handles
\* it and answers, or there is no receiving end
deliver(k) ==
  /\ popup[k].message = "sent"
  /\ IF messageListeners > 0
       THEN /\ onMessage(popup[k].button)
            /\ popup' = [popup EXCEPT ![k].message = "answered"]
       ELSE /\ popup' = [popup EXCEPT ![k].message = "rejected"]
            /\ UNCHANGED tab
  /\ UNCHANGED tabUrl

\* a handler that shows the status of success also after the timeout
response_Late(k) ==
  /\ popup[k].message \in {"answered", "rejected"}
  /\ popup[k].statuses # <<DoneStatus(popup[k].button)>>
  /\ popup' = [popup EXCEPT
       ![k].pc = "done",
       ![k].statuses = Append(@, DoneStatus(popup[k].button))]
  /\ UNCHANGED <<tab, tabUrl>>

\* the promise of sendMessage settles before the timeout: the status of
\* success, or the catch block on 'Receiving end does not exist'
response(k) ==
  /\ popup[k].pc = "race"
  /\ popup[k].message \in {"answered", "rejected"}
  /\ popup' = [popup EXCEPT
       ![k].pc = "done",
       ![k].statuses = Append(@,
          IF popup[k].message = "answered"
            THEN DoneStatus(popup[k].button)
            ELSE "Extension not loaded on page. Please refresh and try again.")]
  /\ UNCHANGED <<tab, tabUrl>>

\* the 5000 ms timer of Promise.race fires first: the catch block on
\* Error('Timeout')
timeout(k) ==
  /\ popup[k].pc = "race"
  /\ popup' = [popup EXCEPT
       ![k].pc = "done",
       ![k].timeout = TRUE,
       ![k].statuses = Append(@, "Error: Timeout")]
  /\ UNCHANGED <<tab, tabUrl>>

NextPopup ==
  \/ \E button \in {"solve", "hint"} : click(button)
  \/ \E k \in DOMAIN popup : tabsQuery(k)
  \/ \E k \in DOMAIN popup : pingAnswer(k)
  \/ \E k \in DOMAIN popup : executeScript(k)
  \/ \E k \in DOMAIN popup : executeScriptFailed(k)
  \/ \E k \in DOMAIN popup : waitDone(k)
  \/ \E k \in DOMAIN popup : deliver(k)
  \/ \E k \in DOMAIN popup : response(k)
  \/ \E k \in DOMAIN popup : timeout(k)
  \/ manifestMatches(tabUrl) /\ inject

\* the popup over one tab, from before content.js has run in the page; the
\* page shows no game board, so that the listener has handled a message
\* when it answers it
SpecPopup == InitToolbar /\ [][NextPopup]_vars

\* a step of a handler that waits for nothing in the page: the answer of
\* chrome.tabs.query, of the ping and of executeScript, the end of the 500 ms
\* wait, the 5000 ms timer
handlerStep ==
  \E k \in DOMAIN popup :
    \/ tabsQuery(k)
    \/ pingAnswer(k)
    \/ executeScript(k)
    \/ executeScriptFailed(k)
    \/ waitDone(k)
    \/ timeout(k)

\* the popup's promises settle and its timers fire: a handler that can be
\* resumed is resumed
SpecPopupLive == InitToolbar /\ [][NextPopup]_vars /\ WF_vars(handlerStep)

TypeOK ==
  /\ BOARD_SIZE \in Sizes
  /\ pc \in {"idle", "enter", "sun", "failed", "done"}
  /\ index \in 0 .. Len(emptyCells)
  /\ run \in 1 .. MaxRuns

(* ---------------------------- rule families ---------------------------- *)
Succeeded == pc = "done" /\ result.kind = "solution"
Failed == pc = "done" /\ result.kind = "null"

RECURSIVE ApplyPlacements(_, _)
\* the board b with the placements of list s applied in order
ApplyPlacements(b, s) ==
  IF s = <<>> THEN b
  ELSE ApplyPlacements([b EXCEPT ![<<s[1][1], s[1][2]>>] = s[1][3]], Tail(s))

NoEmptyCell(b, n) == \A c \in Cells(n) : b[c] # "EMPTY"

Balanced(b, n) ==
  \A k \in 0 .. n - 1 : \A sym \in {"SUN", "MOON"} :
    /\ 2 * CountRow(b, n, k, sym) = n
    /\ 2 * CountCol(b, n, k, sym) = n

NoThreeInRow(b, n) ==
  \A r \in 0 .. n - 1 : \A c \in 0 .. n - 3 :
    /\ ~ (b[<<r, c>>] # "EMPTY" /\ b[<<r, c>>] = b[<<r, c + 1>>] /\ b[<<r, c>>] = b[<<r, c + 2>>])
    /\ ~ (b[<<c, r>>] # "EMPTY" /\ b[<<c, r>>] = b[<<c + 1, r>>] /\ b[<<c, r>>] = b[<<c + 2, r>>])

EdgeHolds(state, x, y) ==
  /\ state = "EQUAL" => x = y
  /\ state = "OPPOSITE" => x # y

EdgesSatisfied(b, h, v, n) ==
  /\ \A e \in HEdges(n) : EdgeHolds(h[e], b[e], b[<<e[1], e[2] + 1>>])
  /\ \A e \in VEdges(n) : EdgeHolds(v[e], b[e], b[<<e[1] + 1, e[2]>>])

RuleConsistent(b, h, v, n) ==
  /\ NoEmptyCell(b, n)
  /\ Balanced(b, n)
  /\ NoThreeInRow(b, n)
  /\ EdgesSatisfied(b, h, v, n)

EmptyOf(b, n) == {c \in Cells(n) : b[c] = "EMPTY"}
LockedOf(b, n) == {c \in Cells(n) : b[c] # "EMPTY"}

\* some assignment of SUN/MOON to the EMPTY cells of b satisfies all rules
HasCompletion(b, h, v, n) ==
  \E f \in [EmptyOf(b, n) -> {"SUN", "MOON"}] :
    RuleConsistent([c \in Cells(n) |-> IF b[c] = "EMPTY" THEN f[c] ELSE b[c]], h, v, n)

(* ---------------------------- claims ----------------------------------- *)

\* C1: whenever solve returns a placement list, the input board with those
\* placements applied has no EMPTY cell, is balanced in every row and
\* column, has no three in a row and satisfies every edge.
C1_Completeness ==
  Succeeded =>
    RuleConsistent(ApplyPlacements(baseBoard, result.placements),
                   horizontal, vertical, BOARD_SIZE)

C3_Restoration ==
  Failed => board = baseBoard

\* C3 witness: NO_SOLUTION after placements were made and taken back
C3_Witness ==
  Failed /\ Len(trace) >= 3 /\ board = baseBoard

\* C4: no locked cell is in the unresolved-cell list, and in every state
\* each locked cell holds its input symbol.
C4_LockedUntouched ==
  /\ \A k \in 1 .. Len(emptyCells) : baseBoard[emptyCells[k]] = "EMPTY"
  /\ \A c \in LockedOf(baseBoard, BOARD_SIZE) : board[c] = baseBoard[c]
  /\ \A k \in 1 .. Len(trace) : baseBoard[<<trace[k][1], trace[k][2]>>] = "EMPTY"

\* C4 witness: a search that ended with a list on a board with locked cells
C4_Witness ==
  /\ Succeeded
  /\ Cardinality(LockedOf(baseBoard, BOARD_SIZE)) >= 2
  /\ Len(result.placements) >= 12

\* C5: on success the placement list has exactly one entry per input EMPTY
\* cell and none for a non-EMPTY cell.
C5_OneEntryPerEmptyCell ==
  Succeeded =>
    LET p == result.placements IN
    /\ Len(p) = Cardinality(EmptyOf(baseBoard, BOARD_SIZE))
    /\ {<<p[k][1], p[k][2]>> : k \in 1 .. Len(p)} = EmptyOf(baseBoard, BOARD_SIZE)
    /\ \A k \in 1 .. Len(p) : p[k][3] \in {"SUN", "MOON"}

\* C5 witness: a list returned after at least one backtrack
C5_Witness ==
  Succeeded /\ Len(trace) > Len(result.placements) /\ Len(result.placements) >= 12

\* C6: for an EQUAL edge between a locked cell and an EMPTY neighbour, a
\* returned solution gives the neighbour the locked cell's symbol, also when
\* the locked cell is the left (or upper) one.
C6_EqualEdgeToLocked ==
  Succeeded =>
    LET b == ApplyPlacements(baseBoard, result.placements) IN
    /\ \A e \in HEdges(BOARD_SIZE) :
         LET x == e  y == <<e[1], e[2] + 1>> IN
         (horizontal[e] = "EQUAL" /\ (baseBoard[x] = "EMPTY") # (baseBoard[y] = "EMPTY"))
           => b[x] = b[y]
    /\ \A e \in VEdges(BOARD_SIZE) :
         LET x == e  y == <<e[1] + 1, e[2]>> IN
         (vertical[e] = "EQUAL" /\ (baseBoard[x] = "EMPTY") # (baseBoard[y] = "EMPTY"))
           => b[x] = b[y]

\* three identical given symbols in consecutive cells of a row or column
GivenThreeInRow(b, n) == ~ NoThreeInRow(b, n)

\* C7: on a board whose given cells already hold three identical
\* consecutive symbols, solve never returns a placement list.
C7_GivenThreeRejected ==
  GivenThreeInRow(baseBoard, BOARD_SIZE) => ~ Succeeded

IsPrefix(s, t) == Len(s) <= Len(t) /\ \A k \in 1 .. Len(s) : s[k] = t[k]

InputKey(c) == Cardinality(getAdjacentEmptyCells(baseBoard, BOARD_SIZE, c[1], c[2]))

HeuristicBefore(x, y) ==
  \/ InputKey(x) < InputKey(y)
  \/ InputKey(x) = InputKey(y) /\ RowMajor(BOARD_SIZE, x) < RowMajor(BOARD_SIZE, y)

\* C9: the placement list is in ascending order of the count of EMPTY
\* 4-neighbours on the input board, ties in row-major order, and the order
\* in use during the search is that one throughout (HeuristicBefore is a
\* strict total order, so consecutive entries in order means all in order).
C9_HeuristicOrder ==
  /\ \A i \in 1 .. Len(emptyCells) - 1 :
       HeuristicBefore(emptyCells[i], emptyCells[i + 1])
  /\ \A k \in 1 .. Len(solution) :
       <<solution[k][1], solution[k][2]>> = emptyCells[k]
  /\ Succeeded =>
       \A i \in 1 .. Len(result.placements) - 1 :
         HeuristicBefore(<<result.placements[i][1], result.placements[i][2]>>,
                         <<result.placements[i + 1][1], result.placements[i + 1][2]>>)

\* C9 witness: a returned list in which a tie was broken by row-major order
\* and a later cell in row-major order came first by its count
C9_Witness ==
  /\ Succeeded
  /\ Len(trace) > Len(result.placements)
  /\ \E i, j \in 1 .. Len(emptyCells) :
       /\ i < j
       /\ RowMajor(BOARD_SIZE, emptyCells[i]) > RowMajor(BOARD_SIZE, emptyCells[j])
  /\ \E i, j \in 1 .. Len(emptyCells) :
       i < j /\ InputKey(emptyCells[i]) = InputKey(emptyCells[j])

\* C10: on a board of odd size solve ends in InvalidBoardError without
\* taking a search step or placing a cell.
C10_EagerStructuralError ==
  BOARD_SIZE % 2 = 1 =>
    /\ pc \in {"idle", "done"}
    /\ trace = <<>>
    /\ pc = "done" => result.kind = "invalid"

\* the two terminal outcomes of solve: every cell non-EMPTY with a list
\* returned, or dfs(0) returned false after the first cell of the order
\* exhausted MOON and SUN
Terminal ==
  /\ pc = "done"
  /\ \/ result.kind = "solution" /\ NoEmptyCell(board, BOARD_SIZE)
     \/ result.kind = "null" /\ index = 0 /\ stack = <<>>

ClicksOn(c) == Cardinality({k \in 1 .. Len(clicks) : clicks[k][2] = c})

InputFinished ==
  /\ Succeeded
  /\ requests[1].stage = "finished"

\* C15: inputSolution clicks only cells that were EMPTY in baseGameState and
\* are not locked, in row-major order, once for SUN and twice for MOON; when
\* it has returned, every cell that was EMPTY shows the solution's symbol and
\* every other cell shows what it showed before.
C15_InputSolution ==
  /\ \A k \in 1 .. Len(clicks) :
       clicks[k][2] \in EmptyOf(baseBoard, BOARD_SIZE) \ lockedCells
  /\ \A k \in 1 .. Len(clicks) - 1 :
       RowMajor(BOARD_SIZE, clicks[k][2]) <= RowMajor(BOARD_SIZE, clicks[k + 1][2])
  /\ InputFinished =>
       LET final == ApplyPlacements(baseBoard, result.placements) IN
       \A c \in Cells(BOARD_SIZE) :
         IF baseBoard[c] = "EMPTY"
           THEN /\ dom[c] = final[c]
                /\ ClicksOn(c) = IF final[c] = "SUN" THEN 1 ELSE 2
           ELSE /\ dom[c] = baseBoard[c]
                /\ ClicksOn(c) = 0

\* C15 witness: a finished input on a board with a locked cell, whose
\* solution list is not in row-major order and holds both symbols
C15_Witness ==
  /\ InputFinished
  /\ lockedCells # {}
  /\ \E k \in 1 .. Len(result.placements) - 1 :
       comparePosition(result.placements[k], result.placements[k + 1]) > 0
  /\ \E c \in Cells(BOARD_SIZE) : ClicksOn(c) = 1
  /\ \E c \in Cells(BOARD_SIZE) : ClicksOn(c) = 2

\* C12: a solve request is answered {success: true} only when its
\* solvePuzzle call has finished.
C12_ResponseAfterSolve ==
  \A r \in DOMAIN requests :
    requests[r].action = "solve" /\ requests[r].response = "success"
      => requests[r].stage = "finished"

\* an instance that found no selector has been told of an added node that
\* holds an element one of possibleSelectors matches
BoardAddedUndetected ==
  /\ instances > 0
  /\ gameSelector = "null"
  /\ \E k \in 1 .. Len(mutations) :
       \E j \in 1 .. Len(possibleSelectors) : mutations[k] = possibleSelectors[j]

\* C13: when no selector matched at initialization, the addition of a node
\* holding a board that one of possibleSelectors matches leads to a retried
\* detection that sets gameSelector.
C13_RedetectOnAddedBoard == BoardAddedUndetected ~> (gameSelector # "null")

\* C14: however often and whenever content.js is run in a page, at most one
\* LinkedInTangoIntegration is constructed and at most one message listener
\* is registered.
C14_SingleInitialization ==
  /\ instances <= 1
  /\ messageListeners <= 1

\* C14 witness: the page finished loading after content.js ran in it more
\* than once, and holds its one instance
C14_Witness ==
  /\ injections > 1
  /\ readyState = "complete"
  /\ instances = 1
  /\ messageListeners = 1

\* the search is about to ask the validator about the cell in turn
AtCell == pc \in {"enter", "sun"} /\ index < Len(emptyCells)

\* a filled cell other across an edge of the given state contradicts symbol
EdgeBroken(state, other, symbol) ==
  /\ other # "EMPTY"
  /\ \/ state = "EQUAL" /\ other # symbol
     \/ state = "OPPOSITE" /\ other = symbol

\* symbol at (row, col) contradicts the edge to one of its four neighbours
EdgeConflict(b, h, v, n, row, col, symbol) ==
  \/ col < n - 1 /\ EdgeBroken(h[<<row, col>>], b[<<row, col + 1>>], symbol)
  \/ col > 0 /\ EdgeBroken(h[<<row, col - 1>>], b[<<row, col - 1>>], symbol)
  \/ row < n - 1 /\ EdgeBroken(v[<<row, col>>], b[<<row + 1, col>>], symbol)
  \/ row > 0 /\ EdgeBroken(v[<<row - 1, col>>], b[<<row - 1, col>>], symbol)

\* C16: isValidPlacement rejects a symbol that contradicts an EQUAL or
\* OPPOSITE edge to a filled left, right, upper or lower neighbour, and the
\* edge rule rejects on no other account.
C16_EdgeRule ==
  AtCell =>
    LET cell == emptyCells[index + 1] IN
    \A symbol \in {"SUN", "MOON"} :
      /\ EdgeConflict(board, horizontal, vertical, BOARD_SIZE, cell[1], cell[2], symbol)
           => ~ isValidPlacement(board, horizontal, vertical, BOARD_SIZE,
                                 cell[1], cell[2], symbol)
      /\ checkEdgeConstraints(board, horizontal, vertical, BOARD_SIZE,
                              cell[1], cell[2], symbol)
           => EdgeConflict(board, horizontal, vertical, BOARD_SIZE,
                           cell[1], cell[2], symbol)

\* with symbol at (row, col), a window of three consecutive cells of the
\* row or the column that lies in the grid and holds (row, col) is all symbol
WouldMakeThree(b, n, row, col, symbol) ==
  LET filled == [b EXCEPT ![<<row, col>>] = symbol] IN
  \/ \E c0 \in 0 .. n - 3 :
       /\ col \in c0 .. c0 + 2
       /\ \A k \in 0 .. 2 : filled[<<row, c0 + k>>] = symbol
  \/ \E r0 \in 0 .. n - 3 :
       /\ row \in r0 .. r0 + 2
       /\ \A k \in 0 .. 2 : filled[<<r0 + k, col>>] = symbol

\* C17: on every board of the search and for every EMPTY cell and symbol,
\* the three-in-a-row checks answer true exactly when one of the windows
\* holding the cell would be three times the symbol, and isValidPlacement
\* then rejects.
C17_ThreeInRowRule ==
  pc # "idle" =>
    \A c \in Cells(BOARD_SIZE) : \A symbol \in {"SUN", "MOON"} :
      board[c] = "EMPTY" =>
        /\ (\/ checkThreeInRowHorizontal(board, BOARD_SIZE, c[1], c[2], symbol)
            \/ checkThreeInRowVertical(board, BOARD_SIZE, c[1], c[2], symbol))
             <=> WouldMakeThree(board, BOARD_SIZE, c[1], c[2], symbol)
        /\ WouldMakeThree(board, BOARD_SIZE, c[1], c[2], symbol)
             => ~ isValidPlacement(board, horizontal, vertical, BOARD_SIZE,
                                   c[1], c[2], symbol)

\* C17 witness: the validator is asked about MOON on a cell that sits
\* between two cells holding MOON
C17_Witness ==
  /\ pc = "enter" /\ index < Len(emptyCells)
  /\ LET cell == emptyCells[index + 1] IN
       /\ cell[2] > 0 /\ cell[2] < BOARD_SIZE - 1
       /\ board[<<cell[1], cell[2] - 1>>] = "MOON"
       /\ board[<<cell[1], cell[2] + 1>>] = "MOON"

\* no row and no column of b holds more than n / 2 SUN or more than n / 2 MOON
WithinHalf(b, n) ==
  \A k \in 0 .. n - 1 : \A symbol \in {"SUN", "MOON"} :
    /\ 2 * CountRow(b, n, k, symbol) <= n
    /\ 2 * CountCol(b, n, k, symbol) <= n

\* C18: the balance check answers true exactly when the row or the column,
\* with the symbol placed, would hold more than N / 2 of it, isValidPlacement
\* then rejects, and from given cells within the bound no board of the
\* search has a row or column with more than N / 2 SUN or MOON.
C18_BalanceRule ==
  /\ pc # "idle" =>
       \A c \in Cells(BOARD_SIZE) : \A symbol \in {"SUN", "MOON"} :
         board[c] = "EMPTY" =>
           LET filled == [board EXCEPT ![c] = symbol] IN
           /\ checkRowColumnBalance(board, BOARD_SIZE, c[1], c[2], symbol)
                <=> \/ 2 * CountRow(filled, BOARD_SIZE, c[1], symbol) > BOARD_SIZE
                    \/ 2 * CountCol(filled, BOARD_SIZE, c[2], symbol) > BOARD_SIZE
           /\ checkRowColumnBalance(board, BOARD_SIZE, c[1], c[2], symbol)
                => ~ isValidPlacement(board, horizontal, vertical, BOARD_SIZE,
                                      c[1], c[2], symbol)
  /\ WithinHalf(baseBoard, BOARD_SIZE) => WithinHalf(board, BOARD_SIZE)

\* C18 witness: on a board with given cells within the bound, the search
\* has filled a row to N / 2 MOON and is asked about MOON in that row
C18_Witness ==
  /\ WithinHalf(baseBoard, BOARD_SIZE)
  /\ LockedOf(baseBoard, BOARD_SIZE) # {}
  /\ pc = "enter" /\ index < Len(emptyCells)
  /\ LET cell == emptyCells[index + 1] IN
       /\ 2 * CountRow(board, BOARD_SIZE, cell[1], "MOON") = BOARD_SIZE
       /\ CountRow(board, BOARD_SIZE, cell[1], "MOON")
            > CountRow(baseBoard, BOARD_SIZE, cell[1], "MOON")

\* one step of the search keeps the order of dfs: MOON is asked about first
\* and SUN is placed only from "Try Sun", on a cell that is EMPTY
MoonFirstStep ==
  LET cell == emptyCells[index + 1] IN
  /\ (pc = "enter" /\ index < Len(emptyCells)) =>
       IF valid("MOON")
         THEN solution' = Append(solution, <<cell[1], cell[2], "MOON">>)
         ELSE pc' = "sun" /\ solution' = solution /\ board' = board
  /\ (Len(solution') > Len(solution) /\ solution'[Len(solution')][3] = "SUN") =>
       /\ pc = "sun"
       /\ board[cell] = "EMPTY"
       /\ solution' = Append(solution, <<cell[1], cell[2], "SUN">>)
  /\ (pc' = "sun" /\ pc # "sun") =>
       \/ pc = "enter" /\ ~ valid("MOON")
       \/ /\ pc = "failed"
          /\ stack[Len(stack)] = "MOON"
          /\ solution' = SubSeq(solution, 1, Len(solution) - 1)
          /\ board'[emptyCells[index]] = "EMPTY"

\* C19: at every index MOON is attempted before SUN, and SUN is committed
\* only after MOON was rejected or after MOON was placed, its subtree
\* failed and the cell was cleared.
C19_MoonBeforeSun == [][MoonFirstStep]_vars

\* C19 witness: SUN stands on a cell on which MOON stood earlier in the run
C19_Witness ==
  /\ solution # <<>>
  /\ solution[Len(solution)][3] = "SUN"
  /\ \E k \in 1 .. Len(trace) - 1 :
       /\ trace[k][3] = "MOON"
       /\ <<trace[k][1], trace[k][2]>> = emptyCells[Len(solution)]
       /\ trace[Len(trace)] = solution[Len(solution)]

SymbolRank(symbol) == IF symbol = "MOON" THEN 0 ELSE 1

\* along the cells of order, board x is not after board y: they agree on
\* every cell, or x holds MOON at the first cell where they differ
LexLeq(order, x, y) ==
  \A k \in 1 .. Len(order) :
    (\A j \in 1 .. k - 1 : x[order[j]] = y[order[j]])
      => SymbolRank(x[order[k]]) <= SymbolRank(y[order[k]])

\* C20: a returned solution is rule-consistent and, along the heuristic
\* cell order with MOON before SUN, not after any rule-consistent
\* assignment of the EMPTY cells.
C20_LexLeast ==
  Succeeded =>
    LET b == ApplyPlacements(baseBoard, result.placements) IN
    /\ RuleConsistent(b, horizontal, vertical, BOARD_SIZE)
    /\ \A f \in [EmptyOf(baseBoard, BOARD_SIZE) -> {"SUN", "MOON"}] :
         LET other == [c \in Cells(BOARD_SIZE) |->
                         IF baseBoard[c] = "EMPTY" THEN f[c] ELSE baseBoard[c]] IN
         RuleConsistent(other, horizontal, vertical, BOARD_SIZE)
           => LexLeq(emptyCells, b, other)

\* the answer of isValidPlacement(row, col, symbol) on the cell in turn, on
\* the board and the edges as they are after the step
validAfter(symbol) ==
  LET cell == emptyCells[index + 1] IN
  isValidPlacement(board', horizontal', vertical', BOARD_SIZE, cell[1], cell[2], symbol)

\* a step of the search from a call of isValidPlacement: the call itself
\* writes nothing, so a rejection leaves every cell and every edge as it
\* was and a second call with the same arguments answers the same
PureCallStep ==
  AtCell =>
    LET cell == emptyCells[index + 1]
        symbol == IF pc = "enter" THEN "MOON" ELSE "SUN"
    IN /\ horizontal' = horizontal
       /\ vertical' = vertical
       /\ \A c \in Cells(BOARD_SIZE) : c # cell => board'[c] = board[c]
       /\ IF valid(symbol)
            THEN board'[cell] = symbol
            ELSE /\ board' = board
                 /\ \A other \in {"SUN", "MOON"} : validAfter(other) = valid(other)

EntrySolution ==
  [k \in 1 .. Len(stack) |-> <<emptyCells[k][1], emptyCells[k][2], stack[k]>>]

\* C22: at every entry to dfs(index) the solution list has exactly index
\* entries, entry k is cell k of the order with the symbol the board holds
\* there, and every later cell of the order is EMPTY; a dfs(index) call
\* that returned false has left the board and the solution list as they
\* were at its entry.
C22_SearchStack ==
  pc \in {"enter", "sun", "failed"} =>
    /\ Len(stack) = index
    /\ Len(solution) = index
    /\ solution = EntrySolution
    /\ \A k \in 1 .. index :
         /\ board[emptyCells[k]] \in {"SUN", "MOON"}
         /\ solution[k] = <<emptyCells[k][1], emptyCells[k][2], board[emptyCells[k]]>>
    /\ \A k \in index + 1 .. Len(emptyCells) : board[emptyCells[k]] = "EMPTY"
    /\ board = ApplyPlacements(baseBoard, EntrySolution)

\* C22 witness: a dfs call three frames deep has returned false after
\* placements were made and taken back below it
C22_Witness ==
  /\ pc = "failed"
  /\ index >= 3
  /\ Len(trace) >= index + 4
  /\ Len(emptyCells) >= index + 2

\* the cells of the placements of list s
CellsOf(s) == {<<s[k][1], s[k][2]>> : k \in 1 .. Len(s)}

\* C23: the search works on a copy of the parsed board: while and after
\* solver.solvePuzzle() runs, baseGameState.board is the board as it was
\* parsed (the given cells with the symbols the page shows, every other
\* cell EMPTY) although the board of the search is written, and the filter
\* of inputSolution keeps exactly one placement for each cell that was
\* EMPTY when the board was parsed.
C23_SearchOnCopy ==
  /\ \A c \in Cells(BOARD_SIZE) :
       baseBoard[c] = IF c \in lockedCells THEN dom[c] ELSE "EMPTY"
  /\ solution # <<>> => board # baseBoard
  /\ \A r \in DOMAIN requests :
       (requests[r].stage = "input" /\ clicks = <<>> /\ requests[r].clicked = 0) =>
         /\ CellsOf(requests[r].queue) = EmptyOf(baseBoard, BOARD_SIZE)
         /\ Len(requests[r].queue) = Cardinality(EmptyOf(baseBoard, BOARD_SIZE))
         /\ EmptyOf(baseBoard, BOARD_SIZE) = Cells(BOARD_SIZE) \ lockedCells

\* C23 witness: inputSolution has filtered the list of a search that
\* backtracked on a board with given cells, and no cell is clicked yet
C23_Witness ==
  /\ requests[1].stage = "input"
  /\ clicks = <<>>
  /\ lockedCells # {}
  /\ Len(requests[1].queue) >= 12
  /\ Len(trace) > Len(result.placements)
  /\ board # baseBoard

\* the requests whose solvePuzzle call has started and has not finished
SolvesInFlight ==
  {r \in DOMAIN requests :
     requests[r].action = "solve" /\ requests[r].stage # "finished"}

\* the requests whose inputSolution has clicked cell c
ClickersOf(c) == {clicks[k][1] : k \in {j \in 1 .. Len(clicks) : clicks[j][2] = c}}

\* C24: at most one solve request is in flight in the content script at a
\* time, and no cell receives clicks from two requests.
C24_OneSolveInFlight ==
  /\ Cardinality(SolvesInFlight) <= 1
  /\ \A c \in Cells(domSize) : Cardinality(ClickersOf(c)) <= 1

\* the statuses that end a solvePuzzle call of content.js
FinalStatuses ==
  {"Puzzle solved!", "Failed to input solution",
   "No solution found or stopped by user", "Game board not found",
   "Error solving puzzle"}

\* the number of final statuses among the statuses of list s
FinalCount(s) == Cardinality({k \in 1 .. Len(s) : s[k] \in FinalStatuses})

\* the first step of a solve request: findGameBoard, and with a board the
\* first status and the call of initialize
PipelineStart(new) ==
  IF findGameBoard(document, gameSelector)
    THEN /\ new.stage \in {"initialize", "parse"}
         /\ new.statuses = <<"Analyzing puzzle...">>
    ELSE /\ new.stage = "finished"
         /\ new.statuses = <<"Game board not found">>
         /\ UNCHANGED solver

\* a later step of a solve request: from each stage to the next one only
PipelineMove(old, new) ==
  \/ new = old
  \/ /\ old.stage = "initialize" /\ new.stage = "parse"
     /\ new.statuses = old.statuses
  \/ /\ old.stage = "parse" /\ new.stage = "solving"
     /\ new.statuses = Append(old.statuses, "Solving puzzle...")
     /\ pc' = "idle"
  \/ /\ old.stage = "parse" /\ new.stage = "finished"
     /\ new.statuses = Append(old.statuses, "Error solving puzzle")
  \/ /\ old.stage = "solving" /\ new.stage = "input"
     /\ pc = "done" /\ result.kind = "solution"
     /\ new.statuses = Append(old.statuses, "Applying solution...")
  \/ /\ old.stage = "solving" /\ new.stage = "finished"
     /\ pc = "done" /\ result.kind = "null"
     /\ new.statuses = Append(old.statuses, "No solution found or stopped by user")
  \/ /\ old.stage = "input" /\ new.stage = "input"
     /\ new.statuses = old.statuses
  \/ /\ old.stage = "input" /\ new.stage = "finished"
     /\ old.queue = <<>>
     /\ new.statuses = Append(old.statuses, "Puzzle solved!")

\* one step keeps the order of solvePuzzle for every solve request
PipelineStep ==
  /\ \A r \in DOMAIN requests' :
       requests'[r].action = "solve" =>
         /\ IF r \in DOMAIN requests
              THEN PipelineMove(requests[r], requests'[r])
              ELSE PipelineStart(requests'[r])
         /\ FinalCount(requests'[r].statuses)
              = IF requests'[r].stage = "finished" THEN 1 ELSE 0
  /\ pc' \notin {"none", "done"} =>
       \E r \in DOMAIN requests' : requests'[r].stage = "solving"
  /\ clicks' # clicks =>
       \E r \in DOMAIN requests :
         /\ requests[r].stage = "input"
         /\ clicks' = Append(clicks, <<r, clicks'[Len(clicks')][2]>>)

\* C25: for every solve request the steps run in the order findGameBoard,
\* initialize, parseBoardState, solver.solvePuzzle, inputSolution; without
\* a game board no later step runs; inputSolution is called only with a
\* solution; Puzzle solved is shown only after inputSolution returned, and
\* a request shows exactly one final status, as its last status.
C25_PipelineOrder == [][PipelineStep]_vars

\* C25 witness: two solve requests have finished, one of them through all
\* steps with clicks on the page
C25_Witness ==
  /\ Len(requests) = 2
  /\ \A r \in DOMAIN requests :
       requests[r].action = "solve" /\ requests[r].stage = "finished"
  /\ requests[1].statuses = <<"Analyzing puzzle...", "Solving puzzle...",
                              "Applying solution...", "Puzzle solved!">>
  /\ Len(clicks) >= 3

\* one step keeps a known selector: a detection that runs while
\* gameSelector is set, from a timer scheduled while it was null, leaves it
\* as it is
RedetectStep == gameSelector # "null" => gameSelector' = gameSelector

\* C29: detectGameSelectors is not run to any effect after gameSelector
\* has been set: a selector once found is never replaced by a later
\* detection, also when several mutation batches each scheduled a delayed
\* re-detection while gameSelector was still null.
C29_RedetectOnlyWhileNull == [][RedetectStep]_vars

\* C26: when the active tab's URL does not contain linkedin.com/games, a
\* click on Solve or Hint sends nothing to the tab (no ping, no script
\* injection, no action message) and shows Please navigate to LinkedIn
\* Games first.
C26_UrlGuard ==
  ~ includesGames(tabUrl) =>
    /\ requests = <<>>
    /\ injections = 0
    /\ \A k \in DOMAIN popup :
         /\ popup[k].sent = <<>>
         /\ popup[k].ping = "none"
         /\ popup[k].injection = "none"
         /\ popup[k].message = "none"
         /\ popup[k].pc \in {"query", "done"}
         /\ popup[k].pc = "done" =>
              popup[k].statuses = <<"Please navigate to LinkedIn Games first">>

\* C26 witness: away from LinkedIn games, a click on Solve and a click on
\* Hint have both ended
C26_Witness ==
  /\ ~ includesGames(tabUrl)
  /\ Len(popup) = 2
  /\ {popup[k].button : k \in DOMAIN popup} = {"solve", "hint"}
  /\ \A k \in DOMAIN popup : popup[k].pc = "done"

\* what one click may have sent to the tab so far
SendOrders(button) ==
  {<<>>, <<"ping">>, <<"ping", button>>, <<"ping", "inject">>,
   <<"ping", "inject", button>>}

\* the action message of click c has been sent
ActionSent(c) == c.message # "none"

\* C27: per click the ping is sent first; the scripts are injected only
\* when the ping failed, and at most once; the action message is sent after
\* the ping succeeded or after the injection attempt finished, also when
\* the injection failed, and never before.
C27_PingThenInject ==
  \A k \in DOMAIN popup :
    LET c == popup[k] IN
    /\ c.sent \in SendOrders(c.button)
    /\ (c.injection # "none" \/ c.pc = "inject") <=> (Len(c.sent) >= 2 /\ c.sent[2] = "inject")
    /\ (Len(c.sent) >= 2 /\ c.sent[2] = "inject") => c.ping = "failed"
    /\ ActionSent(c) <=> (c.sent # <<>> /\ c.sent[Len(c.sent)] = c.button)
    /\ ActionSent(c) =>
         \/ c.ping = "ok" /\ c.injection = "none"
         \/ c.ping = "failed" /\ c.injection \in {"ok", "failed"}
    /\ (c.pc = "done" /\ includesGames(tabUrl)) => ActionSent(c)

\* C27 witness: one click sent its action after a failed injection, another
\* one right after an answered ping
C27_Witness ==
  /\ \E k \in DOMAIN popup :
       /\ popup[k].injection = "failed"
       /\ popup[k].sent = <<"ping", "inject", popup[k].button>>
  /\ \E k \in DOMAIN popup :
       /\ popup[k].ping = "ok"
       /\ popup[k].sent = <<"ping", popup[k].button>>

\* the status of click c matches the way its handler ended
OutcomeOf(c) ==
  /\ Len(c.statuses) = IF c.pc = "done" THEN 1 ELSE 0
  /\ c.statuses = <<DoneStatus(c.button)>> =>
       c.message = "answered" /\ ~ c.timeout
  /\ (c.pc = "done" /\ ActionSent(c) /\ c.statuses # <<DoneStatus(c.button)>>) =>
       IF c.timeout
         THEN c.statuses = <<"Error: Timeout">>
         ELSE /\ c.message = "rejected"
              /\ c.statuses =
                   <<"Extension not loaded on page. Please refresh and try again.">>

\* C28: every click on Solve or Hint ends (the handlers of all clicks made
\* are over from some point on, and stay so), with exactly one status: the
\* status of success only if the response to the action message arrived
\* before the 5000 ms timeout fired, otherwise an error status, Extension
\* not loaded on page for a missing receiving end and Error: Timeout for
\* the timeout.
C28_PopupOutcome ==
  /\ [](\A k \in DOMAIN popup : OutcomeOf(popup[k]))
  /\ <>[](\A k \in DOMAIN popup : popup[k].pc = "done")

\* C28 witness: one click ended on the timeout although the listener
\* answered later, another one with the status of success
C28_Witness ==
  /\ \E k \in DOMAIN popup :
       /\ popup[k].pc = "done"
       /\ popup[k].timeout
       /\ popup[k].message = "answered"
  /\ \E k \in DOMAIN popup :
       /\ popup[k].pc = "done"
       /\ popup[k].statuses = <<DoneStatus(popup[k].button)>>

====
